---- MODULE Spec2Model ----
(***************************************************************************)
(* Model of the reservation API (src/reservation-api/server.js).           *)
(*                                                                         *)
(* The server holds no state of its own: the only shared state is the      *)
(* `bookings` table of the store.  Each HTTP request is an async handler;  *)
(* the awaits on the store are its only suspension points, so a handler    *)
(* is modelled as one atomic step per store call, each step running the    *)
(* code up to the next await or up to the response.                        *)
(***************************************************************************)
EXTENDS Integers, Sequences, FiniteSets, TLC

\* ---------------------------------------------------------------- bounds

NumReq == 2         \* request handlers that may be in flight at once
MaxId  == 2         \* ids the store hands out before inserts are refused
MaxLen == 2         \* longest argument of a direct call of computeAvailable

\* ---------------------------------------------------- program constants

ALL_TIME_SLOTS ==
    << "09:00", "09:30", "10:00", "10:30", "11:00", "11:30",
       "13:00", "13:30", "14:00", "14:30", "15:00", "15:30",
       "16:00", "16:30", "17:00" >>

\* ------------------------------------------------------- request inputs

Procs     == 1..NumReq
Ids       == 1..MaxId
\* the (resourceId, date, slot) triples requests are made for: one triple and
\* the three that differ from it in exactly one field
Targets   ==
    { <<"R1", "2025-06-01", "09:00">>, <<"R1", "2025-06-01", "09:30">>,
      <<"R1", "2025-06-02", "09:00">>, <<"R2", "2025-06-01", "09:00">> }
\* the request bodies (resourceId, date, slot, user) of POST /api/bookings: a
\* named user on every triple, and the empty user name on the first
Bodies    ==
    { <<t[1], t[2], t[3], "Alice">> : t \in Targets }
        \cup { <<"R1", "2025-06-01", "09:00", "">> }
\* the (date, resourceId) pairs queries are made for
Views     == { <<t[2], t[1]>> : t \in Targets }

NoRow     == [id |-> 0]
NoBooking == [id |-> 0, resourceId |-> "", date |-> "", slot |-> "", user |-> ""]
NoSlots   == <<"-">>
NoError   == "none"
StoreDown == "store error"
MultiRows == "multiple rows returned"

VARIABLES
    store,      \* the rows of table `bookings`, in insertion order
    nextId,     \* the id the store gives to the next inserted row
    req,        \* per handler: the request, its locals and its response
    call,       \* a direct call of computeAvailable: arguments and result
    allTimeSlots, \* the module-level array ALL_TIME_SLOTS of the server
    listed,     \* history, per handler: whether its reserve directly follows a
                \* slots query of its date and resource that listed its slot
                \* ("yes") or left it out although it is in the catalog ("no")
    app,        \* the state of the client component App (its useState values)
    net         \* per connection: the client's request in flight, with the
                \* values its handler closed over

vars == <<store, nextId, req, call, allTimeSlots, listed, app, net>>

\* ------------------------------------------------------ store (supabase)

\* .eq('resourceId', resourceId).eq('date', date).eq('slot', slot)
SameTriple(b, r) ==
    b.resourceId = r.resourceId /\ b.date = r.date /\ b.slot = r.slot

\* .maybeSingle(): no row -> data null; one row -> that row; more -> error
MaybeSingle(rows) ==
    IF Len(rows) = 0 THEN [data |-> NoRow, error |-> NoError]
    ELSE IF Len(rows) = 1 THEN [data |-> [id |-> rows[1].id], error |-> NoError]
    ELSE [data |-> NoRow, error |-> MultiRows]

\* a lookup that also filters on the user name
FindExistingOfUser(rows, r, fail) ==
    LET Match(b) == SameTriple(b, r) /\ b.user = r.user
    IN  IF fail THEN [data |-> NoRow, error |-> StoreDown]
        ELSE MaybeSingle(SelectSeq(rows, Match))

\* .select('id').eq(...).eq(...).eq(...).maybeSingle(), or the store's error
FindExisting(rows, r, fail) ==
    LET Match(b) == SameTriple(b, r)
    IN  IF fail THEN [data |-> NoRow, error |-> StoreDown]
        ELSE MaybeSingle(SelectSeq(rows, Match))

\* an insert that leaves out the user
NewRowNoUser(id, r) ==
    [id |-> id, resourceId |-> r.resourceId, date |-> r.date,
     slot |-> r.slot, user |-> ""]

\* .insert([{ resourceId, date, slot, user }]).select().single()
NewRow(id, r) ==
    [id |-> id, resourceId |-> r.resourceId, date |-> r.date,
     slot |-> r.slot, user |-> r.user]

\* a delete that filters with "id <= " in place of "id = "
DeleteUpToId(rows, id) ==
    LET Keep(b) == b.id > id IN SelectSeq(rows, Keep)

\* .delete().eq('id', id)
DeleteById(rows, id) ==
    LET Keep(b) == b.id # id IN SelectSeq(rows, Keep)

\* ------------------------------------------------------------- handlers

\* a search that stops one element early
IncludesButLast(seq, x) == \E i \in 1..(Len(seq) - 1) : seq[i] = x

\* bookedSlots.includes(slot)
Includes(seq, x) == \E i \in 1..Len(seq) : seq[i] = x

\* bookings.map(b => b.slot)
\* a projection that forgets every booking
SlotsOfNone(bookings) == <<>>

SlotsOf(bookings) == [i \in 1..Len(bookings) |-> bookings[i].slot]

\* ALL_TIME_SLOTS.filter(slot => !bookedSlots.includes(slot))
computeAvailable(allSlots, bookedSlots) ==
    LET Unbooked(slot) == ~Includes(bookedSlots, slot)
    IN  SelectSeq(allSlots, Unbooked)

\* a query that leaves out the date filter
BookingsOfResource(rows, date, resourceId) ==
    LET Match(b) == b.resourceId = resourceId
    IN  SelectSeq(rows, Match)

\* .select(...).eq('date', date).eq('resourceId', resourceId)
BookingsFor(rows, date, resourceId) ==
    LET Match(b) == b.date = date /\ b.resourceId = resourceId
    IN  SelectSeq(rows, Match)

\* an error that is never thrown
ThrownNever(error) == FALSE

\* if (error) throw error
Thrown(error) == error # NoError

\* a conflict test that never fires
TakenNever(existing) == FALSE

\* if (existing) return res.status(409)
Taken(existing) == existing # NoRow

\* A handler's record: the request (op and arguments), the handler's locals
\* (existing, fetchError, insertError) and the response (status, error,
\* booking); `sent` counts the responses the handler has sent (res.json).
\* `deleted` and `afterCancel` are history: the rows a cancel
\* removed, and whether a reserve directly follows a successful cancel of a
\* booking of its triple.
Idle ==
    [op |-> "none", pc |-> "idle", resourceId |-> "", date |-> "", slot |-> "",
     user |-> "", id |-> 0, existing |-> NoRow, fetchError |-> NoError,
     insertError |-> NoError, status |-> 0, error |-> "", booking |-> NoBooking,
     bookings |-> <<>>, availableSlots |-> NoSlots,
     deleted |-> <<>>, afterCancel |-> FALSE, sent |-> 0]

Free(p)  == req[p].pc \in {"idle", "done"}
Quiet    == \A p \in Procs : req[p].pc # "insert"
Pending  == Cardinality({p \in Procs : req[p].pc = "insert"})

\* What the other handlers look like after a step of p.  A response is
\* visible in the state in which it is sent; with keep = FALSE the next step
\* of any handler returns the responder to idle.
Others(p, keep) ==
    [q \in Procs |->
        IF q = p \/ keep THEN req[q]
        ELSE IF req[q].pc = "done" THEN Idle
        ELSE [req[q] EXCEPT !.afterCancel = FALSE]]

\* some handler has just answered a cancel that removed a booking of r's triple
JustCancelled(r) ==
    \E q \in Procs :
        /\ req[q].pc = "done" /\ req[q].op = "cancel" /\ req[q].status = 200
        /\ \E i \in 1..Len(req[q].deleted) : SameTriple(req[q].deleted[i], r)

\* what the slots query that some handler has just answered says of a slot
Listing(resourceId, date, slot) ==
    LET Shown(q) == /\ req[q].pc = "done" /\ req[q].op = "slots"
                    /\ req[q].status = 200
                    /\ req[q].date = date /\ req[q].resourceId = resourceId
    IN  IF \E q \in Procs : Shown(q) /\ Includes(req[q].availableSlots, slot)
        THEN "yes"
        ELSE IF /\ \E q \in Procs : Shown(q)
                /\ Includes(allTimeSlots, slot)
        THEN "no"
        ELSE "none"

\* App before its first effect: the initial values of its useState calls;
\* `shownFor` and `fetchFailed` are history: the selection that the response
\* now in confirmedBookings was asked for, and whether a fetchData has failed
\* since the last one was started.  statusMessage and logs are written and
\* never read by the handlers; they are left out.
Today == "2025-06-01"

AppInit ==
    [selectedDate |-> Today, selectedResourceId |-> "R1",
     confirmedBookings |-> <<>>, loading |-> FALSE, userName |-> "",
     shownFor |-> <<>>, fetchFailed |-> FALSE]

\* a connection with no request of the client in flight
NoRequest ==
    [kind |-> "none", date |-> "", resourceId |-> "", slot |-> "", user |-> "",
     id |-> 0]

NoCall == [allSlots |-> <<>>, bookedSlots |-> <<>>, out |-> <<>>, pc |-> "none"]

Init ==
    /\ store = <<>>
    /\ nextId = 1
    /\ req = [p \in Procs |-> Idle]
    /\ call = NoCall
    /\ allTimeSlots = ALL_TIME_SLOTS
    /\ listed = [p \in Procs |-> "none"]
    /\ app = AppInit
    /\ net = [p \in Procs |-> NoRequest]

\* a reserve whose conflict branch sends the 409 and goes on to the insert
ReserveCheckNoReturn(p, resourceId, date, slot, user, fail, keep) ==
    LET r   == [Idle EXCEPT !.op = "reserve", !.resourceId = resourceId,
                            !.date = date, !.slot = slot, !.user = user,
                            !.afterCancel = JustCancelled(
                                [resourceId |-> resourceId, date |-> date,
                                 slot |-> slot])]
        res == FindExisting(store, r, fail)
    IN  /\ Free(p)
        /\ Thrown(res.error) \/ Taken(res.data) \/ nextId + Pending <= MaxId
        /\ req' = [Others(p, keep) EXCEPT ![p] =
                     IF Thrown(res.error)
                     THEN [r EXCEPT !.fetchError = res.error, !.status = 500,
                                    !.error = res.error, !.pc = "done", !.sent = @ + 1]
                     ELSE IF Taken(res.data)
                     THEN [r EXCEPT !.existing = res.data, !.status = 409,
                                    !.error = "This slot is already taken.",
                                    !.pc = "insert", !.sent = @ + 1]
                     ELSE [r EXCEPT !.pc = "insert"]]
        /\ UNCHANGED <<store, nextId, allTimeSlots>>

\* POST /api/bookings, from the arrival of the request to the end of the code
\* that follows the existence check
ReserveCheck(p, resourceId, date, slot, user, fail, keep) ==
    LET r   == [Idle EXCEPT !.op = "reserve", !.resourceId = resourceId,
                            !.date = date, !.slot = slot, !.user = user,
                            !.afterCancel = JustCancelled(
                                [resourceId |-> resourceId, date |-> date,
                                 slot |-> slot])]
        res == FindExisting(store, r, fail)
    IN  /\ Free(p)
        /\ Thrown(res.error) \/ Taken(res.data) \/ nextId + Pending <= MaxId
        /\ req' = [Others(p, keep) EXCEPT ![p] =
                     IF Thrown(res.error)
                     THEN [r EXCEPT !.fetchError = res.error, !.status = 500,
                                    !.error = res.error, !.pc = "done", !.sent = @ + 1]
                     ELSE IF Taken(res.data)
                     THEN [r EXCEPT !.existing = res.data, !.status = 409,
                                    !.error = "This slot is already taken.",
                                    !.pc = "done", !.sent = @ + 1]
                     ELSE [r EXCEPT !.pc = "insert"]]
        /\ UNCHANGED <<store, nextId, allTimeSlots>>

\* POST /api/bookings, the insert and the code that follows it
ReserveInsert(p, fail, keep) ==
    LET r   == req[p]
        row == NewRow(nextId, r)
        insertError == IF fail THEN StoreDown ELSE NoError
    IN  /\ r.op = "reserve" /\ r.pc = "insert"
        /\ IF Thrown(insertError)
           THEN /\ req' = [Others(p, keep) EXCEPT ![p] =
                             [r EXCEPT !.insertError = insertError,
                                       !.status = 500, !.error = insertError,
                                       !.pc = "done", !.sent = @ + 1]]
                /\ UNCHANGED <<store, nextId, allTimeSlots>>
           ELSE /\ store' = Append(store, row)
                /\ nextId' = nextId + 1
                /\ req' = [Others(p, keep) EXCEPT ![p] =
                             [r EXCEPT !.status = 201, !.booking = row,
                                       !.pc = "done", !.sent = @ + 1]]
                /\ UNCHANGED allTimeSlots

\* DELETE /api/bookings/:id
Cancel(p, id, fail, keep) ==
    LET r     == [Idle EXCEPT !.op = "cancel", !.id = id]
        error == IF fail THEN StoreDown ELSE NoError
        Hit(b) == b.id = id
    IN  /\ Free(p)
        /\ IF Thrown(error)
           THEN /\ req' = [Others(p, keep) EXCEPT ![p] =
                             [r EXCEPT !.status = 500, !.error = error,
                                       !.pc = "done", !.sent = @ + 1]]
                /\ UNCHANGED store
           ELSE /\ store' = DeleteById(store, id)
                /\ req' = [Others(p, keep) EXCEPT ![p] =
                             [r EXCEPT !.status = 200, !.pc = "done", !.sent = @ + 1,
                                       !.deleted = SelectSeq(store, Hit)]]
        /\ UNCHANGED <<nextId, allTimeSlots>>

\* a slots query that removes the booked slots from the array itself
SlotsInPlace(p, date, resourceId, fail, keep) ==
    LET r        == [Idle EXCEPT !.op = "slots", !.date = date,
                                 !.resourceId = resourceId]
        error    == IF fail THEN StoreDown ELSE NoError
        bookings == BookingsFor(store, date, resourceId)
        left     == computeAvailable(allTimeSlots, SlotsOf(bookings))
    IN  /\ Free(p)
        /\ req' = [Others(p, keep) EXCEPT ![p] =
                     IF Thrown(error)
                     THEN [r EXCEPT !.status = 500, !.error = error,
                                    !.pc = "done", !.sent = @ + 1]
                     ELSE [r EXCEPT !.status = 200, !.pc = "done", !.sent = @ + 1,
                                    !.availableSlots = left]]
        /\ allTimeSlots' = IF Thrown(error) THEN allTimeSlots ELSE left
        /\ UNCHANGED <<store, nextId>>

\* GET /api/slots?date=&resourceId=
Slots(p, date, resourceId, fail, keep) ==
    LET r        == [Idle EXCEPT !.op = "slots", !.date = date,
                                 !.resourceId = resourceId]
        error    == IF fail THEN StoreDown ELSE NoError
        bookings == BookingsFor(store, date, resourceId)
    IN  /\ Free(p)
        /\ req' = [Others(p, keep) EXCEPT ![p] =
                     IF Thrown(error)
                     THEN [r EXCEPT !.status = 500, !.error = error,
                                    !.pc = "done", !.sent = @ + 1]
                     ELSE [r EXCEPT !.status = 200, !.pc = "done", !.sent = @ + 1,
                                    !.availableSlots =
                                        computeAvailable(allTimeSlots,
                                                         SlotsOf(bookings))]]
        /\ UNCHANGED <<store, nextId, allTimeSlots>>

\* GET /api/bookings/:date/:resource
Bookings(p, date, resource, fail, keep) ==
    LET r        == [Idle EXCEPT !.op = "bookings", !.date = date,
                                 !.resourceId = resource]
        error    == IF fail THEN StoreDown ELSE NoError
        bookings == BookingsFor(store, date, resource)
    IN  /\ Free(p)
        /\ req' = [Others(p, keep) EXCEPT ![p] =
                     IF Thrown(error)
                     THEN [r EXCEPT !.status = 500, !.error = error,
                                    !.pc = "done", !.sent = @ + 1]
                     ELSE [r EXCEPT !.status = 200, !.pc = "done", !.sent = @ + 1,
                                    !.bookings = bookings]]
        /\ UNCHANGED <<store, nextId, allTimeSlots>>

Handle(p, fail, keep) ==
    \/ \E b \in Bodies : ReserveCheck(p, b[1], b[2], b[3], b[4], fail, keep)
    \/ ReserveInsert(p, fail, keep)
    \/ \E id \in Ids : Cancel(p, id, fail, keep)
    \/ \E v \in Views : Slots(p, v[1], v[2], fail, keep)
    \/ \E v \in Views : Bookings(p, v[1], v[2], fail, keep)

Next ==
    /\ \E p \in Procs, fail \in BOOLEAN : Handle(p, fail, FALSE)
    /\ UNCHANGED <<call, listed, app, net>>

Spec == Init /\ [][Next]_vars

\* the server when every store call that a handler awaits returns: a handler
\* between its existence check and its insert goes on
SpecLive ==
    /\ Init /\ [][Next]_vars
    /\ \A p \in Procs :
          WF_vars(\E fail \in BOOLEAN :
                     ReserveInsert(p, fail, FALSE) /\ UNCHANGED <<call, listed, app, net>>)

\* requests handled one at a time (single writer): no handler starts while
\* another is between its existence check and its insert
NextSerial ==
    /\ \E p \in Procs, fail \in BOOLEAN :
          (Quiet \/ req[p].pc = "insert") /\ Handle(p, fail, FALSE)
    /\ UNCHANGED <<call, listed, app, net>>

SpecSerial == Init /\ [][NextSerial]_vars

\* concurrent reserve calls only: no cancel, no store failure, one call per
\* handler, every response kept
NextRace ==
    /\ \E p \in Procs :
          \/ \E b \in Bodies :
                /\ req[p].pc = "idle"
                /\ ReserveCheck(p, b[1], b[2], b[3], b[4], FALSE, TRUE)
          \/ ReserveInsert(p, FALSE, TRUE)
    /\ UNCHANGED <<call, listed, app, net>>

SpecRace == Init /\ [][NextRace]_vars

\* the server when a request may also name a resource and a slot that are in
\* no catalog: the handler takes resourceId and slot from req.body as they come
Unlisted == { <<"R9", "2025-06-01", "08:00", "Alice">> }

NextOpen ==
    /\ \E p \in Procs, fail \in BOOLEAN :
          \/ Handle(p, fail, FALSE)
          \/ \E b \in Unlisted : ReserveCheck(p, b[1], b[2], b[3], b[4], fail, FALSE)
    /\ UNCHANGED <<call, listed, app, net>>

SpecOpen == Init /\ [][NextOpen]_vars

\* the server with the history of what the slots query before each reserve
\* said of the reserve's slot
NextListed ==
    /\ \E p \in Procs, fail \in BOOLEAN :
          /\ Handle(p, fail, FALSE)
          /\ listed' = [q \in Procs |->
                 IF q = p /\ req'[p].op = "reserve" /\ req[p].pc # "insert"
                 THEN Listing(req'[p].resourceId, req'[p].date, req'[p].slot)
                 ELSE IF req'[q].op = "reserve" THEN listed[q]
                 ELSE "none"]
    /\ UNCHANGED <<call, app, net>>

SpecListed == Init /\ [][NextListed]_vars

\* ------------------------------------------------------- the client (App)

\* what the user picks: the dates and resources of Targets, the first slot
ClientDates     == { t[2] : t \in Targets }
ClientResources == { t[1] : t \in Targets }
ClientSlots     == {"09:00"}
UserNames       == {"", "Alice"}

FreeConn(p) == net[p].kind = "none"

\* a new request goes out on the first connection that carries none
FirstFree(p) == FreeConn(p) /\ \A q \in Procs : q < p => ~FreeConn(q)

\* fetchData(date, resourceId) up to its await: setLoading(true) and the
\* request of apiFetchBookings, on connection p; a is App's state before it
fetchData(a, p, date, resourceId) ==
    [app |-> [a EXCEPT !.loading = TRUE, !.fetchFailed = FALSE],
     net |-> [net EXCEPT ![p] =
                [NoRequest EXCEPT !.kind = "fetch", !.date = date,
                                  !.resourceId = resourceId]]]

\* App after its first render and effect: fetchData for the initial selection
InitClient ==
    /\ store = <<>>
    /\ nextId = 1
    /\ req = [p \in Procs |-> Idle]
    /\ call = NoCall
    /\ allTimeSlots = ALL_TIME_SLOTS
    /\ listed = [p \in Procs |-> "none"]
    /\ app = [AppInit EXCEPT !.loading = TRUE]
    /\ net = [p \in Procs |->
                IF p = 1
                THEN [NoRequest EXCEPT !.kind = "fetch", !.date = Today,
                                       !.resourceId = "R1"]
                ELSE NoRequest]

\* the date input changes: setSelectedDate, then the effect calls fetchData
ChangeDate(p, date) ==
    /\ FirstFree(p) /\ date # app.selectedDate
    /\ LET f == fetchData([app EXCEPT !.selectedDate = date], p, date,
                          app.selectedResourceId)
       IN  app' = f.app /\ net' = f.net

\* the resource select changes: setSelectedResourceId, then the effect
ChangeResource(p, resourceId) ==
    /\ FirstFree(p) /\ resourceId # app.selectedResourceId
    /\ LET f == fetchData([app EXCEPT !.selectedResourceId = resourceId], p,
                          app.selectedDate, resourceId)
       IN  app' = f.app /\ net' = f.net

\* the name input changes
SetUserName(user) ==
    /\ user # app.userName
    /\ app' = [app EXCEPT !.userName = user]
    /\ UNCHANGED net

\* the button of a slot is enabled: disabled={booked || loading}
SlotEnabled(slot) ==
    /\ ~app.loading
    /\ ~Includes(SlotsOf(app.confirmedBookings), slot)

\* handleReserveSlot(slot) up to its await: setLoading(true) and the request
\* of apiSubmitReservation with the selection of the render that was clicked;
\* with no name entered it returns before either
ClickSlot(p, slot) ==
    /\ SlotEnabled(slot)
    /\ app.userName # ""
    /\ FirstFree(p)
    /\ app' = [app EXCEPT !.loading = TRUE]
    /\ net' = [net EXCEPT ![p] =
                 [NoRequest EXCEPT !.kind = "reserve",
                                   !.resourceId = app.selectedResourceId,
                                   !.date = app.selectedDate, !.slot = slot,
                                   !.user = app.userName]]

\* handleCancel(b.id) up to its await, for the k-th booking shown
ClickCancel(p, k) ==
    /\ FirstFree(p)
    /\ k \in 1..Len(app.confirmedBookings)
    /\ net' = [net EXCEPT ![p] =
                 [NoRequest EXCEPT !.kind = "delete",
                                   !.id = app.confirmedBookings[k].id,
                                   !.resourceId = app.selectedResourceId,
                                   !.date = app.selectedDate]]
    /\ UNCHANGED app

\* response.ok
Ok(status) == status >= 200 /\ status <= 299

\* fetchData after its await, given the response r: setConfirmedBookings
\* unless apiFetchBookings threw, and setLoading(false) in either case
FetchDone(p, r) ==
    /\ app' = [app EXCEPT
                 !.confirmedBookings = IF Ok(r.status) THEN r.bookings ELSE @,
                 !.shownFor = IF Ok(r.status)
                              THEN <<net[p].date, net[p].resourceId>> ELSE @,
                 !.loading = FALSE,
                 !.fetchFailed = IF Ok(r.status) THEN @ ELSE TRUE]
    /\ net' = [net EXCEPT ![p] = NoRequest]

\* handleReserveSlot after its await, given the response r: setLoading(false),
\* then fetchData with the selection it closed over if the reservation
\* succeeded
ReserveDone(p, r) ==
    IF Ok(r.status)
    THEN LET f == fetchData([app EXCEPT !.loading = FALSE],
                            p, net[p].date, net[p].resourceId)
         IN  app' = f.app /\ net' = f.net
    ELSE /\ app' = [app EXCEPT !.loading = FALSE]
         /\ net' = [net EXCEPT ![p] = NoRequest]

\* handleCancel after its await, given the response r: fetchData with the
\* selection it closed over if the delete succeeded
CancelDone(p, r) ==
    IF Ok(r.status)
    THEN LET f == fetchData(app, p, net[p].date, net[p].resourceId)
         IN  app' = f.app /\ net' = f.net
    ELSE UNCHANGED app /\ net' = [net EXCEPT ![p] = NoRequest]

\* The server handles the request in flight on connection p; the response
\* reaches the client in the step in which the handler sends it, and the
\* code after the client's await runs.
ServeFetch(p, fail) ==
    /\ net[p].kind = "fetch"
    /\ Bookings(p, net[p].date, net[p].resourceId, fail, FALSE)
    /\ FetchDone(p, req'[p])

ServeReserve(p, fail) ==
    /\ net[p].kind = "reserve"
    /\ \/ /\ req[p].pc # "insert"
          /\ ReserveCheck(p, net[p].resourceId, net[p].date, net[p].slot,
                          net[p].user, fail, FALSE)
       \/ ReserveInsert(p, fail, FALSE)
    /\ IF req'[p].pc = "done"
       THEN ReserveDone(p, req'[p])
       ELSE UNCHANGED <<app, net>>

ServeCancel(p, fail) ==
    /\ net[p].kind = "delete"
    /\ Cancel(p, net[p].id, fail, FALSE)
    /\ CancelDone(p, req'[p])

\* one client and the server
NextClient ==
    /\ \/ /\ \/ \E p \in Procs, date \in ClientDates : ChangeDate(p, date)
             \/ \E p \in Procs, resourceId \in ClientResources :
                   ChangeResource(p, resourceId)
             \/ \E user \in UserNames : SetUserName(user)
             \/ \E p \in Procs, slot \in ClientSlots : ClickSlot(p, slot)
             \/ \E p \in Procs, k \in Ids : ClickCancel(p, k)
          /\ req' = Others(0, FALSE)
          /\ UNCHANGED <<store, nextId, allTimeSlots>>
       \/ \E p \in Procs, fail \in BOOLEAN :
             \/ ServeFetch(p, fail)
             \/ ServeReserve(p, fail)
             \/ ServeCancel(p, fail)
    /\ UNCHANGED <<call, listed>>

SpecClient == InitClient /\ [][NextClient]_vars

\* the server, or a direct call of computeAvailable on arguments drawn from
\* the sequences of at most MaxLen labels
Labels == {"09:00", "09:30", "10:00"}
SeqsUpTo(n) == UNION { [1..k -> Labels] : k \in 0..n }

InitAvail ==
    /\ store = <<>>
    /\ nextId = 1
    /\ req = [p \in Procs |-> Idle]
    /\ call \in {NoCall} \cup
                { [allSlots |-> a, bookedSlots |-> b, out |-> <<>>, pc |-> "call"] :
                      a \in SeqsUpTo(MaxLen), b \in SeqsUpTo(MaxLen) }
    /\ allTimeSlots = ALL_TIME_SLOTS
    /\ listed = [p \in Procs |-> "none"]
    /\ app = AppInit
    /\ net = [p \in Procs |-> NoRequest]

ComputeAvailableCall ==
    /\ call.pc = "call"
    /\ call' = [call EXCEPT !.out = computeAvailable(call.allSlots, call.bookedSlots),
                            !.pc = "done"]
    /\ UNCHANGED <<store, nextId, req, allTimeSlots, listed, app, net>>

NextAvail ==
    \/ call.pc = "none" /\ Next
    \/ ComputeAvailableCall

SpecAvail == InitAvail /\ [][NextAvail]_vars

\* ------------------------------------------------------------ properties

\* the rows of the store booked for a triple
RowsFor(resourceId, date, slot) ==
    { i \in 1..Len(store) :
        /\ store[i].resourceId = resourceId
        /\ store[i].date = date
        /\ store[i].slot = slot }

Answered(p, op) == req[p].pc = "done" /\ req[p].op = op

\* this step is handler p running the named part of a route, for the request
\* now in its record, with the store failing (fail) or answering
ReserveCheckStep(p, fail) ==
    /\ req'[p].op = "reserve"
    /\ ReserveCheck(p, req'[p].resourceId, req'[p].date, req'[p].slot,
                    req'[p].user, fail, FALSE)
ReserveInsertStep(p, fail) ==
    /\ req[p].pc = "insert"
    /\ ReserveInsert(p, fail, FALSE)
CancelStep(p, fail) ==
    /\ req'[p].op = "cancel"
    /\ Cancel(p, req'[p].id, fail, FALSE)
BookingsStep(p, fail) ==
    /\ req'[p].op = "bookings"
    /\ Bookings(p, req'[p].date, req'[p].resourceId, fail, FALSE)
SlotsStep(p, fail) ==
    /\ req'[p].op = "slots"
    /\ Slots(p, req'[p].date, req'[p].resourceId, fail, FALSE)

\* C1: Invariant I1 under concurrency: under any interleaving of the store
\* calls of concurrent reserve and cancel requests, no two rows of the store
\* are bookings of the same (resourceId, date, slot) triple.
C1_UniquenessUnderConcurrency ==
    \A i, j \in 1..Len(store) :
        ( /\ store[i].resourceId = store[j].resourceId
          /\ store[i].date = store[j].date
          /\ store[i].slot = store[j].slot ) => i = j

\* C2: of the concurrent reserve calls for one triple, with no cancel and no
\* store failure, at most one is answered 201 and every other one is answered
\* 409 "This slot is already taken."
C2_AtMostOneReserveSucceeds ==
    \A p, q \in Procs :
        ( /\ p # q
          /\ Answered(p, "reserve") /\ Answered(q, "reserve")
          /\ req[p].resourceId = req[q].resourceId
          /\ req[p].date = req[q].date
          /\ req[p].slot = req[q].slot )
        => /\ ~(req[p].status = 201 /\ req[q].status = 201)
           /\ req[p].status = 201 \/
                  ( /\ req[p].status = 409
                    /\ req[p].error = "This slot is already taken." )

\* C3: single-writer correctness: when requests are handled one at a time,
\* after any sequence of reserve and cancel calls from the empty store there
\* is at most one row per (resourceId, date, slot) triple.
C3_SingleWriterUniqueness ==
    \A t \in Targets : Cardinality(RowsFor(t[1], t[2], t[3])) <= 1

\* C3 witness: a reserve has just been refused on a triple that is booked once
C3_Witness ==
    \E p \in Procs :
        /\ Answered(p, "reserve") /\ req[p].status = 409
        /\ Cardinality(RowsFor(req[p].resourceId, req[p].date, req[p].slot)) = 1

\* C4 (as stated): a reserve handled alone for a triple the store holds
\* exactly one booking of is answered 409 and leaves the store as it was,
\* whatever the user name.
C4_ConflictLeavesStoreUnchanged ==
    [][ \A p \in Procs, fail \in BOOLEAN :
          ( /\ ReserveCheckStep(p, fail)
            /\ Cardinality(RowsFor(req'[p].resourceId, req'[p].date,
                                    req'[p].slot)) = 1 )
          => /\ req'[p].pc = "done" /\ req'[p].status = 409
             /\ store' = store /\ nextId' = nextId ]_vars

\* C4 (amended): a reserve handled alone for a triple the store holds exactly
\* one booking of never goes on to the insert and leaves the store as it was,
\* whatever the user name; it is answered 409 when the store answers the
\* existence check, and 500 when the store fails at it.
C4_ConflictUnlessStoreFails ==
    [][ \A p \in Procs, fail \in BOOLEAN :
          ( /\ ReserveCheckStep(p, fail)
            /\ Cardinality(RowsFor(req'[p].resourceId, req'[p].date,
                                    req'[p].slot)) = 1 )
          => /\ req'[p].pc = "done"
             /\ req'[p].status = (IF fail THEN 500 ELSE 409)
             /\ store' = store /\ nextId' = nextId ]_vars

\* C4 witness: a reserve was refused on a triple booked once, by another user
C4_Witness ==
    \E p \in Procs :
        /\ Answered(p, "reserve") /\ req[p].status = 409
        /\ Cardinality(RowsFor(req[p].resourceId, req[p].date, req[p].slot)) = 1
        /\ \A i \in RowsFor(req[p].resourceId, req[p].date, req[p].slot) :
              store[i].user # req[p].user

\* C5: a reserve with a non-empty user that directly follows a successful
\* cancel of a booking of its triple, with no step of another request in
\* between and no store failure, is answered 201 and its new row is in the
\* store.
C5_CancelThenReserveSucceeds ==
    \A p \in Procs :
        ( /\ Answered(p, "reserve") /\ req[p].afterCancel
          /\ req[p].user # ""
          /\ req[p].fetchError # StoreDown /\ req[p].insertError # StoreDown )
        => /\ req[p].status = 201
           /\ \E i \in RowsFor(req[p].resourceId, req[p].date, req[p].slot) :
                 store[i] = req[p].booking

\* C6: a reserve with the empty user name is answered with a validation
\* error (400) and creates no row.
C6_EmptyUserRejected ==
    /\ \A p \in Procs :
          (Answered(p, "reserve") /\ req[p].user = "")
          => (req[p].status = 400 /\ req[p].booking = NoBooking)
    /\ \A i \in 1..Len(store) : store[i].user # ""

\* out is all with the elements of the set booked left out, in the order of all
IsComplement(out, all, booked) ==
    LET Left == { i \in 1..Len(all) : all[i] \notin booked }
    IN  /\ Len(out) = Cardinality(Left)
        /\ \A i \in Left : out[Cardinality({ j \in Left : j <= i })] = all[i]

Elements(seq) == { seq[i] : i \in 1..Len(seq) }

\* the slots of the rows of the store for a date and a resource
BookedSlots(date, resourceId) ==
    { store[i].slot : i \in { j \in 1..Len(store) :
                                store[j].date = date
                                /\ store[j].resourceId = resourceId } }

\* C7: availability complement: computeAvailable(allSlots, bookedSlots) is
\* allSlots without the elements of bookedSlots, in allSlots' order; it is
\* allSlots when bookedSlots is empty and empty when bookedSlots has every
\* element of allSlots; the availableSlots of GET /api/slots are that result
\* for ALL_TIME_SLOTS and the slots of the store's rows for the queried
\* (date, resourceId).
C7_AvailabilityComplement ==
    /\ call.pc = "done" =>
          /\ IsComplement(call.out, call.allSlots, Elements(call.bookedSlots))
          /\ call.bookedSlots = <<>> => call.out = call.allSlots
          /\ Elements(call.allSlots) \subseteq Elements(call.bookedSlots)
                => call.out = <<>>
    /\ \A p \in Procs :
          (Answered(p, "slots") /\ req[p].status = 200)
          => IsComplement(req[p].availableSlots, ALL_TIME_SLOTS,
                          BookedSlots(req[p].date, req[p].resourceId))

\* C7 witness: a call that kept some slots and left some out
C7_Witness ==
    /\ call.pc = "done"
    /\ call.out # <<>>
    /\ Len(call.out) < Len(call.allSlots)

\* bks is exactly the rows of the store for a date and a resource
ExactlyTheBookings(bks, rows, date, resourceId) ==
    LET Hits == { i \in 1..Len(rows) :
                    rows[i].date = date /\ rows[i].resourceId = resourceId }
    IN  /\ Len(bks) = Cardinality(Hits)
        /\ \A i \in Hits : \E k \in 1..Len(bks) : bks[k] = rows[i]
        /\ \A k \in 1..Len(bks) : \E i \in Hits : bks[k] = rows[i]

\* C8 (as stated): in every reachable state listBookings(resourceId, date)
\* is answered with success and exactly the rows now in the store with that
\* resourceId and date (none cancelled, none of another resource or date),
\* the empty sequence when there are none.
C8_ListingExact ==
    \A p \in Procs :
        Answered(p, "bookings")
        => /\ req[p].status = 200
           /\ ExactlyTheBookings(req[p].bookings, store,
                                 req[p].date, req[p].resourceId)

\* C8 (amended): when the store answers the query, listBookings is answered
\* 200 with exactly the rows now in the store with that resourceId and date,
\* the empty sequence when there are none; when the store fails it is
\* answered 500 with no rows.  The store is left as it was.
C8_ListingExactUnlessStoreFails ==
    [][ \A p \in Procs, fail \in BOOLEAN :
          BookingsStep(p, fail)
          => /\ req'[p].pc = "done"
             /\ store' = store
             /\ IF fail
                THEN req'[p].status = 500 /\ req'[p].bookings = <<>>
                ELSE /\ req'[p].status = 200
                     /\ ExactlyTheBookings(req'[p].bookings, store',
                                           req'[p].date, req'[p].resourceId) ]_vars

\* C8 witness: an empty listing, answered 200, after a cancel and while a
\* booking of another date or resource is in the store
C8_Witness ==
    \E p \in Procs :
        /\ Answered(p, "bookings") /\ req[p].status = 200
        /\ req[p].bookings = <<>>
        /\ Len(store) = 1 /\ nextId = 3

\* C9: when the store does not fail, cancel(id) is answered 200 whether or
\* not a row has that id; for an unknown id the store is unchanged; after it
\* no row has that id, and a cancel(id) that directly follows a successful
\* cancel(id) leaves the store as the first one left it.
C9_CancelLenientIdempotent ==
    [][ \A p \in Procs :
          CancelStep(p, FALSE)
          => /\ req'[p].pc = "done" /\ req'[p].status = 200
             /\ (\A i \in 1..Len(store) : store[i].id # req'[p].id)
                   => store' = store
             /\ \A i \in 1..Len(store') : store'[i].id # req'[p].id
             /\ (\E q \in Procs : /\ Answered(q, "cancel")
                                  /\ req[q].status = 200
                                  /\ req[q].id = req'[p].id)
                   => store' = store ]_vars

\* C9 witness: a cancel answered 200 that removed nothing, for an id the
\* store had given out (its row was cancelled before)
C9_Witness ==
    \E p \in Procs :
        /\ Answered(p, "cancel") /\ req[p].status = 200
        /\ req[p].deleted = <<>>
        /\ req[p].id < nextId

\* C10: a reserve whose existence check or insert gets an error from the
\* store is answered 500; a failed check ends the call without an insert,
\* and a failed insert leaves the store without a new row.
C10_StoreFailureInReserve ==
    [][ \A p \in Procs :
          /\ ReserveCheckStep(p, TRUE)
                => /\ req'[p].pc = "done" /\ req'[p].status = 500
                   /\ req'[p].booking = NoBooking
                   /\ store' = store /\ nextId' = nextId
          /\ ReserveInsertStep(p, TRUE)
                => /\ req'[p].pc = "done" /\ req'[p].status = 500
                   /\ req'[p].booking = NoBooking
                   /\ store' = store /\ nextId' = nextId ]_vars

\* C10 witness: a reserve answered 500 after its insert failed
C10_Witness ==
    \E p \in Procs :
        /\ Answered(p, "reserve") /\ req[p].insertError = StoreDown
        /\ req[p].status = 500

\* the resource catalog (RESOURCES of the client)
Catalog == {"R1", "R2", "R3"}

\* C11: Invariant I2 (referential validity): every row of the store has a
\* resourceId of the catalog (R1, R2, R3) and a slot that is one of the 15
\* ALL_TIME_SLOTS labels, whatever resourceId and slot reserve is called with.
C11_ReferentialValidity ==
    \A i \in 1..Len(store) :
        /\ store[i].resourceId \in Catalog
        /\ \E k \in 1..Len(ALL_TIME_SLOTS) : ALL_TIME_SLOTS[k] = store[i].slot

\* C12: a reserve for a triple that has at least one row in the store, the
\* store answering the existence check, is answered 409, never 500, and goes
\* on to no insert; also when the triple has several rows.
C12_ConflictNeverStoreFailure ==
    [][ \A p \in Procs :
          ( /\ ReserveCheckStep(p, FALSE)
            /\ RowsFor(req'[p].resourceId, req'[p].date, req'[p].slot) # {} )
          => /\ req'[p].pc = "done" /\ req'[p].status = 409
             /\ store' = store /\ nextId' = nextId ]_vars

\* C13: lifecycle and frame: a row appears in the store only as the booking
\* of a reserve answered 201 in that step, and disappears only in a cancel
\* with its id; a row that stays keeps its id, resourceId, date, slot and
\* user; a cancel leaves every row with another id in place; the two queries
\* leave the store as it was.
C13_LifecycleAndFrame ==
    [][ /\ \A j \in 1..Len(store') :
              \/ \E i \in 1..Len(store) : store[i] = store'[j]
              \/ \E p \in Procs : /\ ReserveInsertStep(p, FALSE)
                                  /\ req'[p].status = 201
                                  /\ req'[p].booking = store'[j]
        /\ \A i \in 1..Len(store) :
              \/ \E j \in 1..Len(store') : store'[j] = store[i]
              \/ \E p \in Procs : /\ CancelStep(p, FALSE)
                                  /\ req'[p].id = store[i].id
        /\ \A i \in 1..Len(store), j \in 1..Len(store') :
              store[i].id = store'[j].id => store[i] = store'[j]
        /\ \A p \in Procs, fail \in BOOLEAN :
              CancelStep(p, fail)
              => \A i \in 1..Len(store) :
                    store[i].id # req'[p].id
                    => \E j \in 1..Len(store') : store'[j] = store[i]
        /\ \A p \in Procs, fail \in BOOLEAN :
              (SlotsStep(p, fail) \/ BookingsStep(p, fail)) => store' = store
      ]_vars

\* C13 witness: a cancel removed a row and another row is still in the store
C13_Witness ==
    \E p \in Procs :
        /\ Answered(p, "cancel") /\ req[p].status = 200
        /\ req[p].deleted # <<>>
        /\ store # <<>>

\* C14 (as stated): a successful reserve returns a row with the four values
\* of the request and an id no row of the store had; a row in the store (a
\* booking not yet cancelled) is in every listBookings of its resourceId and
\* date, and its slot is in no availableSlots of GET /api/slots for them.
C14_ReservedThenListed ==
    [][ \A p \in Procs :
          /\ ReserveInsertStep(p, FALSE)
                => /\ req'[p].status = 201
                   /\ req'[p].booking.resourceId = req[p].resourceId
                   /\ req'[p].booking.date = req[p].date
                   /\ req'[p].booking.slot = req[p].slot
                   /\ req'[p].booking.user = req[p].user
                   /\ \A i \in 1..Len(store) : store[i].id # req'[p].booking.id
                   /\ \E j \in 1..Len(store') : store'[j] = req'[p].booking
          /\ \A fail \in BOOLEAN :
                BookingsStep(p, fail)
                => \A i \in 1..Len(store) :
                      ( /\ store[i].date = req'[p].date
                        /\ store[i].resourceId = req'[p].resourceId )
                      => \E k \in 1..Len(req'[p].bookings) :
                            req'[p].bookings[k] = store[i]
          /\ \A fail \in BOOLEAN :
                SlotsStep(p, fail)
                => \A i \in 1..Len(store) :
                      ( /\ store[i].date = req'[p].date
                        /\ store[i].resourceId = req'[p].resourceId )
                      => \A k \in 1..Len(req'[p].availableSlots) :
                            req'[p].availableSlots[k] # store[i].slot ]_vars

\* C14 (amended): as C14, with the record in every listBookings that the
\* store answers; a listBookings at which the store fails returns no record.
C14_ReservedThenListedUnlessStoreFails ==
    [][ \A p \in Procs :
          /\ ReserveInsertStep(p, FALSE)
                => /\ req'[p].status = 201
                   /\ req'[p].booking.resourceId = req[p].resourceId
                   /\ req'[p].booking.date = req[p].date
                   /\ req'[p].booking.slot = req[p].slot
                   /\ req'[p].booking.user = req[p].user
                   /\ \A i \in 1..Len(store) : store[i].id # req'[p].booking.id
                   /\ \E j \in 1..Len(store') : store'[j] = req'[p].booking
          /\ \A fail \in {FALSE} :
                BookingsStep(p, fail)
                => \A i \in 1..Len(store) :
                      ( /\ store[i].date = req'[p].date
                        /\ store[i].resourceId = req'[p].resourceId )
                      => \E k \in 1..Len(req'[p].bookings) :
                            req'[p].bookings[k] = store[i]
          /\ \A fail \in BOOLEAN :
                SlotsStep(p, fail)
                => \A i \in 1..Len(store) :
                      ( /\ store[i].date = req'[p].date
                        /\ store[i].resourceId = req'[p].resourceId )
                      => \A k \in 1..Len(req'[p].availableSlots) :
                            req'[p].availableSlots[k] # store[i].slot ]_vars

\* C14 witness: a listing that returned a booking made before
C14_Witness ==
    \E p \in Procs :
        /\ Answered(p, "bookings") /\ req[p].status = 200
        /\ req[p].bookings # <<>>
        /\ \A k \in 1..Len(req[p].bookings) :
              \E i \in 1..Len(store) : store[i] = req[p].bookings[k]

\* the place of a label in a sequence of distinct labels
IndexIn(seq, x) == CHOOSE i \in 1..Len(seq) : seq[i] = x

\* C15: the slot catalog is constant: in every reachable state the server's
\* ALL_TIME_SLOTS is the sequence of 15 distinct labels it was defined as, no
\* operation changes it, and the availableSlots of GET /api/slots are a
\* subsequence of it: labels of the catalog only, in its order, none twice.
C15_SlotCatalogConstant ==
    /\ allTimeSlots = ALL_TIME_SLOTS
    /\ Len(allTimeSlots) = 15
    /\ \A i, j \in 1..Len(allTimeSlots) :
          allTimeSlots[i] = allTimeSlots[j] => i = j
    /\ \A p \in Procs :
          (Answered(p, "slots") /\ req[p].status = 200)
          => /\ \A k \in 1..Len(req[p].availableSlots) :
                   \E i \in 1..Len(allTimeSlots) :
                       allTimeSlots[i] = req[p].availableSlots[k]
             /\ \A k, l \in 1..Len(req[p].availableSlots) :
                   k < l => IndexIn(allTimeSlots, req[p].availableSlots[k])
                               < IndexIn(allTimeSlots, req[p].availableSlots[l])

\* C15 witness: a slots query answered with some slot of the catalog left out
C15_Witness ==
    \E p \in Procs :
        /\ Answered(p, "slots") /\ req[p].status = 200
        /\ Len(req[p].availableSlots) < Len(allTimeSlots)

\* C16: availability agrees with admission: when a slots query for (date,
\* resourceId) is directly followed by a reserve for that date, resource and a
\* slot, with a non-empty user and no store failure in that reserve, then the
\* reserve answers 201 if the query listed the slot as available, and does not
\* answer 201 if the query left the slot out although it is in the catalog.
C16_AvailabilityAgreesWithAdmission ==
    \A p \in Procs :
        ( /\ Answered(p, "reserve")
          /\ req[p].user # ""
          /\ req[p].fetchError # StoreDown
          /\ req[p].insertError # StoreDown )
        => /\ listed[p] = "yes" => req[p].status = 201
           /\ listed[p] = "no"  => req[p].status # 201

\* C16 witness: a reserve of a slot that the preceding slots query listed
\* answers 201
C16_Witness ==
    \E p \in Procs :
        /\ Answered(p, "reserve") /\ req[p].user # ""
        /\ listed[p] = "yes" /\ req[p].status = 201

\* a reserve of a slot that the preceding slots query left out is refused
C16_WitnessNotListed ==
    \E p \in Procs :
        /\ Answered(p, "reserve") /\ req[p].user # ""
        /\ listed[p] = "no" /\ req[p].status = 409

\* the statuses a handler of each route can answer with
StatusesOf(op) ==
    IF op = "reserve" THEN {201, 409, 500} ELSE {200, 500}

\* C17: every request is answered exactly once, provided each store call
\* returns: a handler that has answered has sent one response, with a status
\* of its route (reserve 201, 409 or 500; cancel and the queries 200 or 500),
\* a handler that has not answered has sent none, a handler that awaits its
\* insert leaves the wait only by answering, and none awaits for ever.
C17_AnsweredExactlyOnce ==
    /\ [](\A p \in Procs :
             /\ req[p].pc = "done" => /\ req[p].sent = 1
                                      /\ req[p].status \in StatusesOf(req[p].op)
             /\ req[p].pc # "done" => req[p].sent = 0)
    /\ [][\A p \in Procs :
             (req[p].pc = "insert" /\ req'[p].pc # "insert")
             => req'[p].pc = "done"]_vars
    /\ \A p \in Procs : []<>(req[p].pc # "insert")

\* C17 witness: a reserve that found the slot taken has answered 409, once,
\* while another reserve is between its check and its insert
C17_Witness ==
    \E p, q \in Procs :
        /\ Answered(p, "reserve") /\ req[p].status = 409 /\ req[p].sent = 1
        /\ req[q].pc = "insert" /\ req[q].sent = 0

\* the connections on which a request of the given kind awaits its response
InFlight(kind) == { p \in Procs : net[p].kind = kind }

\* C18: client in-flight guard: while a reservation request started by
\* handleReserveSlot has not received its response, `loading` is true (so
\* every slot button is disabled), and the client never has two reserve
\* requests in flight at once, whatever the interleaving of the user's events
\* with the completions of fetchData and of reserve requests.
C18_InFlightGuard ==
    /\ InFlight("reserve") # {} => app.loading
    /\ Cardinality(InFlight("reserve")) <= 1

\* C19: client view consistency: whenever no fetchData request is in flight
\* and the last one succeeded (none has failed since the last one was
\* started), confirmedBookings is the response for the selection
\* (selectedDate, selectedResourceId) of the moment, not for an earlier one.
C19_ViewConsistency ==
    (InFlight("fetch") = {} /\ ~app.fetchFailed)
    => app.shownFor = <<app.selectedDate, app.selectedResourceId>>

====
